---- MODULE Spec2Model ----
(***************************************************************************)
(* Model of streamlit_app.py: the load_data pipeline (CSV cells ->          *)
(* normalised, sorted table), the metrics / chart / styled-table script    *)
(* that follows it, and the st.cache_data window with the "Refresh now"    *)
(* button.  Streamlit runs the script of every browser session in a thread *)
(* of its own over one shared cache; a script waits in pd.read_csv.        *)
(*                                                                          *)
(* A cell is [kind, text].  kind "str" is a field with text; kind "na" is  *)
(* a field its row does not have, which pd.read_csv reads as NaN, and what *)
(* line 52 makes of a sentinel (pd.NA); kind "none" is a cell of a column  *)
(* the sheet lacks, which line 49 fills with Python's None.  Dates and     *)
(* times are the strings of the sheet; the parsers below are the tables of *)
(* pd.to_datetime / pd.to_numeric on the strings the model draws.  Dates   *)
(* that parse lie in November 2024, around the America/New_York change     *)
(* from EDT to EST on the 3rd.  A date that does not parse is NaT, which   *)
(* dt.datetime.combine reads as 0001-01-01.                                *)
(***************************************************************************)
EXTENDS Integers, Sequences, FiniteSets, TLC

VARIABLES
    sheet,      \* the upstream table behind SHEET_CSV_URL: a sequence of raw rows
    lib,        \* the installed pandas: how its quicksort orders equal keys and
                \* what pd.to_datetime makes of a year-1 string (fixed per run)
    now,        \* wall clock, seconds
    cache,      \* st.cache_data's slot for load_data(SHEET_CSV_URL)
    lock,       \* the holder of the slot's compute lock, or "free"; clear() drops
                \* the lock object, so a session whose body started before a
                \* clear() goes on without being the holder
    inflight,   \* per session: the sheet pd.read_csv is bringing back
    pc,         \* per session: position of the script run
    pressed,    \* per session: this run was started by a click on "Refresh now"
    df,         \* per session: the table load_data returned to this run
    shown,      \* per session: the elements this run has put on the page
    metrics,    \* per session: the four st.metric values
    chart,      \* per session: the data handed to st.line_chart
    styles,     \* per session: color_minutes' result for the Minutes column
    fetches,    \* per session: pd.read_csv calls made by this run
    fetched,    \* per session: the last load_data call went to the source
    lastOk,     \* history: the last load_data body that returned
    cleared,    \* history: load_data.clear() ran and no load_data call came since
    clearedSinceStore   \* history: load_data.clear() ran since lastOk was stored

vars == <<sheet, lib, now, cache, lock, inflight, pc, pressed, df, shown,
          metrics, chart, styles, fetches, fetched, lastOk, cleared,
          clearedSinceStore>>

-----------------------------------------------------------------------------
(* Bounds and program constants *)

MaxRows == 3
MaxTime == 450
TickStep == 150
MinStyled == 15
MaxStyled == 65

REFRESH_EVERY_SECONDS == 300
IST_UTC_OFFSET == 19800
EDT_UTC_OFFSET == -14400
EST_UTC_OFFSET == -18000
\* 2024-11-03 06:00:00 UTC, in seconds after 2024-11-01 00:00:00 UTC
DC_FALL_BACK_UTC == 194400
\* local mean time, the offsets of both zones in the year 1:
\* Asia/Kolkata +05:53:28, America/New_York -04:56:02
IST_LMT_OFFSET == 21208
DC_LMT_OFFSET == -17762
DAY == 86400
\* days from 2001-01-01 to 2024-11-01
DAYS_2001_TO_NOV_2024 == 8705

-----------------------------------------------------------------------------
(* Cells and missing values *)

Cell(t) == [kind |-> "str", text |-> t]
NA == [kind |-> "na", text |-> ""]
None == [kind |-> "none", text |-> ""]
IntNA == [na |-> TRUE, v |-> 0]
IntOf(n) == [na |-> FALSE, v |-> n]
NoStr == [na |-> TRUE, Y |-> 0, m |-> 0, d |-> 0, I |-> 0, M |-> 0, p |-> ""]
NaT == -1
\* an exception inside a try block
Raise == -2

Columns == {"date", "start", "slept", "duration_min", "note"}

\* pd.read_csv's default na_values
PandasDefaultNA ==
    {"", "#N/A", "#N/A N/A", "#NA", "-1.#IND", "-1.#QNAN", "-NaN", "-nan",
     "1.#IND", "1.#QNAN", "<NA>", "N/A", "NA", "NULL", "NaN", "None", "n/a",
     "nan", "null"}

\* a column the sheet lacks is added as None (line 49)
read_csv_cell(c) ==
    IF c.kind = "none" THEN None
    ELSE IF c.kind = "str" /\ c.text \notin PandasDefaultNA THEN c
    ELSE NA

read_csv(raw) == [i \in 1..Len(raw) |-> [c \in Columns |-> read_csv_cell(raw[i][c])]]

replace_cell(c) ==
    IF c.kind = "str" /\ c.text \in {"", "None", "none", "NaN", "nan"} THEN NA ELSE c

replace(frame) == [i \in 1..Len(frame) |-> [c \in Columns |-> replace_cell(frame[i][c])]]

-----------------------------------------------------------------------------
(* Parsers: pd.to_numeric(errors="coerce") and pd.to_datetime(errors="coerce") *)

NaN == [kind |-> "nan", tenths |-> 0]
Inf == [kind |-> "inf", tenths |-> 0]
Fin(t) == [kind |-> "fin", tenths |-> t]

\* a float, in tenths
to_numeric(c) ==
    IF c.kind # "str" THEN NaN
    ELSE CASE c.text = "10"   -> Fin(100)
           [] c.text = "21"   -> Fin(210)
           [] c.text = "12.7" -> Fin(127)
           [] c.text = "-5.5" -> Fin(-55)
           [] c.text = "inf"  -> Inf
           [] OTHER           -> NaN

\* pd.to_datetime(x, errors="coerce").date(): the day of November 2024; NaT for
\* NaN, pd.NA and text that is no date (NaT.date() is NaT); pd.to_datetime(None)
\* is None, and None.date() raises
to_date(c) ==
    IF c.kind = "none" THEN Raise
    ELSE IF c.kind = "na" THEN NaT
    ELSE CASE c.text = "2024-11-02" -> 2
           [] c.text = "2024-11-03" -> 3
           [] OTHER                 -> NaT

\* pd.to_datetime(x, errors="coerce").time(): seconds after midnight;
\* NaT.time() and None.time() raise
to_time(c) ==
    IF c.kind # "str" THEN Raise
    ELSE CASE c.text = "00:10"    -> 600
           [] c.text = "11:20"    -> 40800
           [] c.text = "23:50"    -> 85800
           [] c.text = "23:50:30" -> 85830
           [] OTHER               -> Raise

\* int(x) of a float held in tenths: towards zero
int_of(t) == IF t >= 0 THEN t \div 10 ELSE -((-t) \div 10)

\* dt.datetime.combine(d, t).replace(tzinfo=IST): a wall time [Y, sec], sec the
\* seconds after 2024-11-01 00:00 (Y = 2024) or after 0001-01-01 00:00 (Y = 1,
\* which is what combine makes of NaT)
combine(d, t) ==
    IF d = NaT THEN [Y |-> 1, sec |-> t] ELSE [Y |-> 2024, sec |-> (d - 1) * DAY + t]

\* x + dt.timedelta(days=1)
plus_day(x) == [x EXCEPT !.sec = @ + DAY]

-----------------------------------------------------------------------------
(* compute_minutes: [exc, na, v]; exc is an exception that leaves the function *)

Minutes(n) == [exc |-> FALSE, na |-> FALSE, v |-> n]
MinutesNA == [exc |-> FALSE, na |-> TRUE, v |-> 0]
MinutesRaise == [exc |-> TRUE, na |-> TRUE, v |-> 0]

\* the try block of lines 58-68
derive_minutes(row) ==
    LET d == to_date(row.date)
        s == to_time(row.start)
        sl == to_time(row.slept)
    IN IF d = Raise \/ s = Raise \/ sl = Raise THEN MinutesNA
       ELSE LET start_dt == combine(d, s)
                slept_0 == combine(d, sl)
                slept_dt == IF slept_0.sec < start_dt.sec THEN plus_day(slept_0) ELSE slept_0
            IN Minutes((slept_dt.sec - start_dt.sec) \div 60)

compute_minutes_derived_first(row, num) ==
    LET m == derive_minutes(row)
    IN IF ~m.na THEN m
       ELSE IF num.kind = "inf" THEN MinutesRaise
       ELSE IF num.kind = "fin" THEN Minutes(int_of(num.tenths))
       ELSE m

compute_minutes_rollover_on_equal(row, num) ==
    IF num.kind = "inf" THEN MinutesRaise
    ELSE IF num.kind = "fin" THEN Minutes(int_of(num.tenths))
    ELSE LET d == to_date(row.date)
             s == to_time(row.start)
             sl == to_time(row.slept)
         IN IF d = Raise \/ s = Raise \/ sl = Raise THEN MinutesNA
            ELSE LET start_dt == combine(d, s)
                     slept_0 == combine(d, sl)
                     slept_dt == IF slept_0.sec <= start_dt.sec THEN plus_day(slept_0) ELSE slept_0
                 IN Minutes((slept_dt.sec - start_dt.sec) \div 60)

compute_minutes_no_rollover(row, num) ==
    IF num.kind = "inf" THEN MinutesRaise
    ELSE IF num.kind = "fin" THEN Minutes(int_of(num.tenths))
    ELSE LET d == to_date(row.date)
             s == to_time(row.start)
             sl == to_time(row.slept)
         IN IF d = Raise \/ s = Raise \/ sl = Raise THEN MinutesNA
            ELSE Minutes((combine(d, sl).sec - combine(d, s).sec) \div 60)

\* row: the cells after replace; num: the row's duration_min after pd.to_numeric
compute_minutes(row, num) ==
    IF num.kind = "inf" THEN MinutesRaise
    ELSE IF num.kind = "fin" THEN Minutes(int_of(num.tenths))
    ELSE derive_minutes(row)

-----------------------------------------------------------------------------
(* to_dc_strings *)

\* OverflowError: the conversion leaves the year 1
OutOfRange == [Y |-> 0, sec |-> 0]

\* x.astimezone(DC): Washington wall time, [Y, sec] as for combine
astimezone_DC(ist) ==
    IF ist.Y = 1
    THEN LET utc == ist.sec - IST_LMT_OFFSET
             dc == utc + DC_LMT_OFFSET
         IN IF utc < 0 \/ dc < 0 THEN OutOfRange ELSE [Y |-> 1, sec |-> dc]
    ELSE LET utc == ist.sec - IST_UTC_OFFSET
         IN [Y |-> 2024,
             sec |-> IF utc < DC_FALL_BACK_UTC THEN utc + EDT_UTC_OFFSET
                     ELSE utc + EST_UTC_OFFSET]

\* strftime("%Y-%m-%d %I:%M %p"): the month is November of 2024 or January of
\* the year 1, whose %Y is "1"
strftime(dc) ==
    LET h == (dc.sec % DAY) \div 3600
    IN [na |-> FALSE,
        Y |-> dc.Y,
        m |-> IF dc.Y = 1 THEN 1 ELSE 11,
        d |-> dc.sec \div DAY + 1,
        I |-> IF h % 12 = 0 THEN 12 ELSE h % 12,
        M |-> (dc.sec % 3600) \div 60,
        p |-> IF h < 12 THEN "AM" ELSE "PM"]

to_dc_strings(row) ==
    LET d == to_date(row.date)
        s_t == to_time(row.start)
        sl_t == to_time(row.slept)
    IN IF d = Raise \/ s_t = Raise \/ sl_t = Raise THEN <<NoStr, NoStr>>
       ELSE LET s_dt_ist == combine(d, s_t)
                sl_0 == combine(d, sl_t)
                sl_dt_ist == IF sl_0.sec < s_dt_ist.sec THEN plus_day(sl_0) ELSE sl_0
                s_dc == astimezone_DC(s_dt_ist)
                sl_dc == astimezone_DC(sl_dt_ist)
            IN IF s_dc = OutOfRange \/ sl_dc = OutOfRange THEN <<NoStr, NoStr>>
               ELSE <<strftime(s_dc), strftime(sl_dc)>>

\* pd.to_datetime(start_dc, errors="coerce"): minutes after 2024-11-01 00:00, or
\* NaT.  "1-01-01 12:30 AM" has no four-digit year: a pandas that holds the
\* column to the format of its 2024 strings gives NaT, one that hands each
\* string to dateutil reads month 1, day 1, year 01, which is 2001-01-01
\* (du: which of the two the installed pandas does)
parse_dc(s, du) ==
    LET minute == ((s.d - 1) * 24 + (s.I % 12) + (IF s.p = "PM" THEN 12 ELSE 0)) * 60 + s.M
    IN IF s.na THEN NaT
       ELSE IF s.Y = 2024 THEN minute
       ELSE IF du THEN minute - DAYS_2001_TO_NOV_2024 * 24 * 60
       ELSE NaT

-----------------------------------------------------------------------------
(* sort_values("_sort"): pandas' nargsort, na_position="last", kind="quicksort" *)

RECURSIVE insert(_, _, _)
\* st: equal keys keep their order (insertion sort); ~st: the platform's
\* quicksort turns them round
insert(seq, item, st) ==
    IF seq = <<>> THEN <<item>>
    ELSE LET h == Head(seq)
         IN IF (st /\ h.k <= item.k) \/ (~st /\ h.k < item.k)
            THEN <<h>> \o insert(Tail(seq), item, st)
            ELSE <<item>> \o seq

RECURSIVE argsort(_, _)
argsort(items, st) ==
    IF items = <<>> THEN <<>>
    ELSE insert(argsort(SubSeq(items, 1, Len(items) - 1), st), items[Len(items)], st)

keyed(rows, du) ==
    [i \in 1..Len(rows) |-> [k |-> parse_dc(rows[i].start_dc, du), r |-> rows[i]]]
unkeyed(items) == [i \in 1..Len(items) |-> items[i].r]
notnat(item) == item.k # NaT
isnat(item) == item.k = NaT

sort_values_na_first(rows, l) ==
    unkeyed(SelectSeq(keyed(rows, l.dateutil), isnat)
            \o argsort(SelectSeq(keyed(rows, l.dateutil), notnat), l.stable))

\* l: the installed pandas, [stable, dateutil]
sort_values(rows, l) ==
    unkeyed(argsort(SelectSeq(keyed(rows, l.dateutil), notnat), l.stable)
            \o SelectSeq(keyed(rows, l.dateutil), isnat))

-----------------------------------------------------------------------------
(* load_data: [ok, exc, rows] *)

Raised(e) == [ok |-> FALSE, exc |-> e, rows |-> <<>>]
Returned(rows) == [ok |-> TRUE, exc |-> "", rows |-> rows]

\* pd.to_numeric(...).astype("Int64") of the resolved column
to_Int64(m) == IF m.na THEN IntNA ELSE IntOf(m.v)

load_data(raw, l) ==
    LET n == Len(raw)
        cells == replace(read_csv(raw))
        num == [i \in 1..n |-> to_numeric(cells[i].duration_min)]
        mins == [i \in 1..n |-> compute_minutes(cells[i], num[i])]
        dc_pairs == [i \in 1..n |-> to_dc_strings(cells[i])]
        frame == [i \in 1..n |->
                    [idx |-> i,
                     date |-> cells[i].date,
                     start |-> cells[i].start,
                     slept |-> cells[i].slept,
                     duration_min |-> to_Int64(mins[i]),
                     note |-> cells[i].note,
                     start_dc |-> dc_pairs[i][1],
                     slept_dc |-> dc_pairs[i][2]]]
    IN IF \E i \in 1..n : mins[i].exc THEN Raised("OverflowError")
       \* df.apply(..., result_type="expand") of a frame without rows is a copy
       \* of the frame, which has no column 0
       ELSE IF n = 0 THEN Raised("KeyError")
       ELSE Returned(sort_values(frame, l))

-----------------------------------------------------------------------------
(* The metrics block *)

notna(x) == ~x.na
dropna(frame) ==
    LET col == [i \in 1..Len(frame) |-> frame[i].duration_min]
        kept == SelectSeq(col, notna)
    IN [i \in 1..Len(kept) |-> kept[i].v]

RECURSIVE sum(_)
sum(s) == IF s = <<>> THEN 0 ELSE Head(s) + sum(Tail(s))

min(s) == CHOOSE x \in {s[i] : i \in 1..Len(s)} : \A j \in 1..Len(s) : x <= s[j]
max(s) == CHOOSE x \in {s[i] : i \in 1..Len(s)} : \A j \in 1..Len(s) : x >= s[j]

\* round(durations.mean()), halves away from zero
mean_rounded(s) ==
    LET t == sum(s)
        n == Len(s)
    IN IF t >= 0 THEN (2 * t + n) \div (2 * n) ELSE -((2 * (-t) + n) \div (2 * n))

\* int(durations.mean())
mean_int(s) ==
    LET t == sum(s)
        n == Len(s)
    IN IF t >= 0 THEN t \div n ELSE -((-t) \div n)

NoMetrics == [avg |-> 0, latest |-> 0, best |-> 0, worst |-> 0]

metrics_block(frame) ==
    LET durations == dropna(frame)
    IN IF Len(durations) = 0 THEN NoMetrics
       ELSE [avg |-> mean_int(durations),
             latest |-> durations[Len(durations)],
             best |-> min(durations),
             worst |-> max(durations)]

-----------------------------------------------------------------------------
(* The trend chart: rows whose start_dc parses and that have a duration *)

\* the index is increasing from its first entry to its last
is_monotonic_increasing(pts) == \A i \in 1..Len(pts) - 1 : pts[i].k <= pts[i + 1].k

\* dropna(subset=...).set_index("start_dc").sort_index(): sort_index leaves an
\* index that is increasing already as it is
chart_df(frame, l) ==
    LET charted(r) == parse_dc(r.start_dc, l.dateutil) # NaT /\ ~r.duration_min.na
        kept == SelectSeq(frame, charted)
        pts == [i \in 1..Len(kept) |->
                  [k |-> parse_dc(kept[i].start_dc, l.dateutil), r |-> kept[i].duration_min.v]]
    IN IF is_monotonic_increasing(pts) THEN pts ELSE argsort(pts, l.stable)

-----------------------------------------------------------------------------
(* color_minutes *)

GREEN == "background-color:#065f46;color:#ecfdf5;"
YELLOW == "background-color:#92400e;color:#fffbeb;"
ORANGE == "background-color:#7c2d12;color:#fff7ed;"
RED == "background-color:#7f1d1d;color:#fef2f2;"

color_minutes_20_green(vals) ==
    [i \in 1..Len(vals) |->
        IF vals[i].na THEN ""
        ELSE LET x == vals[i].v
             IN IF x <= 20 THEN GREEN
                ELSE IF 20 <= x /\ x <= 45 THEN YELLOW
                ELSE IF 45 < x /\ x <= 60 THEN ORANGE
                ELSE RED]

color_minutes(vals) ==
    [i \in 1..Len(vals) |->
        \* int(pd.NA) raises
        IF vals[i].na THEN ""
        ELSE LET x == vals[i].v
             IN IF x < 20 THEN GREEN
                ELSE IF 20 <= x /\ x <= 45 THEN YELLOW
                ELSE IF 45 < x /\ x <= 60 THEN ORANGE
                ELSE RED]

-----------------------------------------------------------------------------
(* st.cache_data(ttl=REFRESH_EVERY_SECONDS): one slot, keyed by the URL, *)
(* shared by the sessions of the app                                     *)

Sessions == {"A", "B"}

EmptyCache == [valid |-> FALSE, value |-> <<>>, storedAt |-> 0]

\* an entry is served while its age is below the ttl
cache_hit(c, t) == c.valid /\ t - c.storedAt < REFRESH_EVERY_SECONDS

NoLoad == [at |-> -1, sheet |-> <<>>, rows |-> <<>>]

\* session s leaves the lock it took: the slot's lock, unless clear() dropped
\* it meanwhile
release(l, s) == IF l = s THEN "free" ELSE l

-----------------------------------------------------------------------------
(* The script run of session s *)

world == <<sheet, lib, now>>
history == <<lastOk, cleared, clearedSinceStore>>

continue_after_error == [pc |-> "metrics", shown |-> {"error"}]

\* st.error(...); st.stop()
stop_on_error == [pc |-> "stopped", shown |-> {"error"}]

\* the script of s starts from the top
NewRun(s, byButton) ==
    /\ pc' = [pc EXCEPT ![s] = "load"]
    /\ pressed' = [pressed EXCEPT ![s] = byButton]
    /\ df' = [df EXCEPT ![s] = <<>>]
    /\ shown' = [shown EXCEPT ![s] = {}]
    /\ metrics' = [metrics EXCEPT ![s] = NoMetrics]
    /\ chart' = [chart EXCEPT ![s] = <<>>]
    /\ styles' = [styles EXCEPT ![s] = <<>>]
    /\ fetches' = [fetches EXCEPT ![s] = 0]

\* load_data(SHEET_CSV_URL) answered from the cache: at the wrapper's first
\* lookup, or at its second one, made once the compute lock is free
LoadCached(s) ==
    /\ pc[s] = "load"
    /\ cache_hit(cache, now)
    /\ df' = [df EXCEPT ![s] = cache.value]
    /\ fetched' = [fetched EXCEPT ![s] = FALSE]
    /\ pc' = [pc EXCEPT ![s] = "metrics"]
    /\ cleared' = FALSE
    /\ UNCHANGED <<world, lastOk, clearedSinceStore, cache, lock, inflight, pressed,
                   shown, metrics, chart, styles, fetches>>

\* a miss: the wrapper takes the compute lock (a session that finds it held
\* waits at "load"), load_data's body starts and pd.read_csv asks the source,
\* which answers with the sheet as it is now; the body then waits for the
\* answer at line 44
LoadFetch(s) ==
    /\ pc[s] = "load"
    /\ ~cache_hit(cache, now)
    /\ lock = "free"
    /\ lock' = s
    /\ inflight' = [inflight EXCEPT ![s] = sheet]
    /\ cleared' = FALSE
    /\ fetches' = [fetches EXCEPT ![s] = @ + 1]
    /\ fetched' = [fetched EXCEPT ![s] = TRUE]
    /\ pc' = [pc EXCEPT ![s] = "read_csv"]
    /\ UNCHANGED <<world, lastOk, clearedSinceStore, cache, pressed, df, shown, metrics, chart,
                   styles>>

\* pd.read_csv raises: the source is unreachable or its answer is no CSV
LoadFetchFail(s) ==
    /\ pc[s] = "read_csv"
    /\ lock' = release(lock, s)
    /\ pc' = [pc EXCEPT ![s] = stop_on_error.pc]
    /\ shown' = [shown EXCEPT ![s] = stop_on_error.shown]
    /\ UNCHANGED <<world, history, cache, inflight, pressed, df,
                   metrics, chart, styles, fetches, fetched>>

\* pd.read_csv returns, the rest of the body returns or raises; the wrapper
\* stores what it returned, over whatever the slot holds, and gives up its lock
LoadStore(s) ==
    /\ pc[s] = "read_csv"
    /\ lock' = release(lock, s)
    /\ LET r == load_data(inflight[s], lib)
       IN IF r.ok
          THEN /\ cache' = [valid |-> TRUE, value |-> r.rows, storedAt |-> now]
               /\ df' = [df EXCEPT ![s] = r.rows]
               /\ lastOk' = [at |-> now, sheet |-> inflight[s], rows |-> r.rows]
               /\ clearedSinceStore' = FALSE
               /\ UNCHANGED cleared
               /\ pc' = [pc EXCEPT ![s] = "metrics"]
               /\ UNCHANGED shown
          ELSE /\ pc' = [pc EXCEPT ![s] = stop_on_error.pc]
               /\ shown' = [shown EXCEPT ![s] = stop_on_error.shown]
               /\ UNCHANGED <<cache, df, history>>
    /\ UNCHANGED <<world, inflight, pressed, metrics, chart, styles,
                   fetches, fetched>>

\* if df.empty: st.info(...); st.stop()  --  else the four st.metric calls
MetricsStep(s) ==
    /\ pc[s] = "metrics"
    /\ IF df[s] = <<>>
       THEN /\ shown' = [shown EXCEPT ![s] = @ \cup {"info"}]
            /\ pc' = [pc EXCEPT ![s] = "stopped"]
            /\ UNCHANGED metrics
       ELSE /\ metrics' = [metrics EXCEPT ![s] = metrics_block(df[s])]
            /\ shown' = [shown EXCEPT ![s] = @ \cup {"metrics"}]
            /\ pc' = [pc EXCEPT ![s] = "chart"]
    /\ UNCHANGED <<world, history, cache, lock, inflight, pressed, df,
                   chart, styles, fetches, fetched>>

ChartStep(s) ==
    /\ pc[s] = "chart"
    /\ chart' = [chart EXCEPT ![s] = chart_df(df[s], lib)]
    /\ shown' = [shown EXCEPT
                   ![s] = IF chart_df(df[s], lib) # <<>> THEN @ \cup {"chart"} ELSE @]
    /\ pc' = [pc EXCEPT ![s] = "table"]
    /\ UNCHANGED <<world, history, cache, lock, inflight, pressed, df,
                   metrics, styles, fetches, fetched>>

TableStep(s) ==
    /\ pc[s] = "table"
    /\ styles' = [styles EXCEPT
                    ![s] = color_minutes([i \in 1..Len(df[s]) |-> df[s][i].duration_min])]
    /\ shown' = [shown EXCEPT ![s] = @ \cup {"table"}]
    /\ pc' = [pc EXCEPT ![s] = "button"]
    /\ UNCHANGED <<world, history, cache, lock, inflight, pressed, df,
                   metrics, chart, fetches, fetched>>

\* if st.button("Refresh now"): load_data.clear(); st.rerun()
\* clear() drops the compute lock and empties the slot; it does not wait for
\* a body that is running, and a call made after it can start a second body
\* beside that one
ButtonStep(s) ==
    /\ pc[s] = "button"
    /\ IF pressed[s]
       THEN /\ cache' = EmptyCache
            /\ cleared' = TRUE
            /\ clearedSinceStore' = TRUE
            /\ lock' = "free"
            /\ NewRun(s, FALSE)
            /\ UNCHANGED lastOk
       ELSE /\ pc' = [pc EXCEPT ![s] = "done"]
            /\ shown' = [shown EXCEPT ![s] = @ \cup {"button"}]
            /\ UNCHANGED <<history, cache, lock, pressed, df, metrics, chart,
                           styles, fetches>>
    /\ UNCHANGED <<world, inflight, fetched>>

\* a page render of session s
StartRender(s) ==
    /\ pc[s] \in {"idle", "done", "stopped"}
    /\ NewRun(s, FALSE)
    /\ UNCHANGED <<world, history, cache, lock, inflight, fetched>>

\* a click on the button of a finished page: the script runs with the button set
ClickRefresh(s) ==
    /\ pc[s] = "done"
    /\ "button" \in shown[s]
    /\ NewRun(s, TRUE)
    /\ UNCHANGED <<world, history, cache, lock, inflight, fetched>>

-----------------------------------------------------------------------------
(* The environment: time and the sheet's owner *)

Tick ==
    /\ now + TickStep <= MaxTime
    /\ now' = now + TickStep
    /\ UNCHANGED <<sheet, lib, history, cache, lock, inflight, pc,
                   pressed, df, shown, metrics, chart, styles, fetches, fetched>>

RawRow(d, s, sl, m, n) ==
    [date |-> d, start |-> s, slept |-> sl, duration_min |-> m, note |-> n]

AppSheets ==
    { <<RawRow(Cell("2024-11-03"), Cell("23:50"), Cell("00:10"), None, Cell("ok"))>>,
      <<RawRow(Cell("2024-11-03"), Cell("23:50"), Cell("00:10"), Cell("21"), Cell("ok"))>>,
      <<RawRow(Cell("2024-11-03"), Cell("23:50"), Cell("00:10"), Cell("inf"), None)>> }

EditSheet ==
    /\ \E t \in AppSheets \ {sheet} : sheet' = t
    /\ UNCHANGED <<lib, now, history, cache, lock, inflight, pc,
                   pressed, df, shown, metrics, chart, styles, fetches, fetched>>

-----------------------------------------------------------------------------
(* Specifications *)

Blank ==
    /\ now = 0
    /\ cache = EmptyCache
    /\ lock = "free"
    /\ inflight = [s \in Sessions |-> <<>>]
    /\ pressed = [s \in Sessions |-> FALSE]
    /\ df = [s \in Sessions |-> <<>>]
    /\ shown = [s \in Sessions |-> {}]
    /\ metrics = [s \in Sessions |-> NoMetrics]
    /\ chart = [s \in Sessions |-> <<>>]
    /\ styles = [s \in Sessions |-> <<>>]
    /\ fetches = [s \in Sessions |-> 0]
    /\ fetched = [s \in Sessions |-> FALSE]
    /\ lastOk = NoLoad
    /\ cleared = FALSE
    /\ clearedSinceStore = FALSE

\* the installed pandas
Libs == [stable : BOOLEAN, dateutil : BOOLEAN]

\* The application: the sessions' renders and clicks, time and edits of the
\* sheet.  The sheets of AppSheets have one row and dates of 2024, where the
\* choices of lib do not differ.
Init ==
    /\ sheet \in AppSheets
    /\ lib = [stable |-> TRUE, dateutil |-> TRUE]
    /\ pc = [s \in Sessions |-> "idle"]
    /\ Blank

Next ==
    \/ \E s \in Sessions :
          \/ StartRender(s)
          \/ ClickRefresh(s)
          \/ LoadCached(s)
          \/ LoadFetch(s)
          \/ LoadFetchFail(s)
          \/ LoadStore(s)
          \/ MetricsStep(s)
          \/ ChartStep(s)
          \/ TableStep(s)
          \/ ButtonStep(s)
    \/ Tick
    \/ EditSheet

Spec == Init /\ [][Next]_vars

\* the session whose run the bounded domains below follow
Viewer == "A"

\* load_data and the metrics block over every table of the bounded domain
Sentinels == {"", "none", "None", "nan", "NaN"}
\* a field of a one-row sheet: absent from the row, of a column the sheet
\* lacks, or text
CellsOf(texts) == {NA, None} \cup {Cell(t) : t \in texts}

WideRows ==
    [date : CellsOf(Sentinels \cup {"NONE", "2024-11-03"}),
     start : CellsOf(Sentinels \cup {"NONE", "00:10", "23:50", "23:50:30"}),
     slept : CellsOf(Sentinels \cup {"NONE", "00:10", "23:50"}),
     duration_min : CellsOf(Sentinels \cup {"NONE", "12.7", "-5.5", "inf"}),
     note : CellsOf(Sentinels \cup {"NONE", "ok"})]

\* rows of a sheet that has no note column
NarrowRows ==
    [date : {Cell("2024-11-03"), Cell("")},
     start : {Cell("11:20"), Cell("00:10"), Cell("NONE")},
     slept : {Cell("00:10")},
     duration_min : {Cell(""), Cell("10")},
     note : {None}]

PipelineTables ==
    {<<r>> : r \in WideRows} \cup UNION {[1..n -> NarrowRows] : n \in 0..MaxRows}

\* some start_dc of the table is a string of the year 1
Year1(raw) ==
    \E i \in 1..Len(raw) : to_dc_strings(replace(read_csv(raw))[i])[1].Y = 1

\* the two choices of lib are drawn where the table lets them differ
InitPipeline ==
    /\ sheet \in PipelineTables
    /\ lib \in [stable : IF Len(sheet) > 1 THEN BOOLEAN ELSE {TRUE},
                dateutil : IF Year1(sheet) THEN BOOLEAN ELSE {TRUE}]
    /\ pc = [s \in Sessions |-> IF s = Viewer THEN "load" ELSE "idle"]
    /\ Blank

NextPipeline ==
    \/ LoadFetch(Viewer)
    \/ LoadStore(Viewer)
    \/ MetricsStep(Viewer)

SpecPipeline == InitPipeline /\ [][NextPipeline]_vars

\* color_minutes over every Minutes column of the bounded domain
StyledRow(i, m) ==
    [idx |-> i, date |-> NA, start |-> NA, slept |-> NA, duration_min |-> m,
     note |-> NA, start_dc |-> NoStr, slept_dc |-> NoStr]

StyledValues == {IntNA} \cup {IntOf(x) : x \in MinStyled..MaxStyled}

StyledFrames ==
    UNION {{[i \in 1..n |-> StyledRow(i, f[i])] : f \in [1..n -> StyledValues]} : n \in 1..2}

InitColor ==
    /\ sheet = <<>>
    /\ lib = [stable |-> TRUE, dateutil |-> TRUE]
    /\ now = 0
    /\ cache = EmptyCache
    /\ lock = "free"
    /\ inflight = [s \in Sessions |-> <<>>]
    /\ pressed = [s \in Sessions |-> FALSE]
    /\ \E f \in StyledFrames :
          /\ df = [s \in Sessions |-> IF s = Viewer THEN f ELSE <<>>]
          /\ metrics = [s \in Sessions |->
                          IF s = Viewer THEN metrics_block(f) ELSE NoMetrics]
    /\ pc = [s \in Sessions |-> IF s = Viewer THEN "table" ELSE "idle"]
    /\ shown = [s \in Sessions |-> IF s = Viewer THEN {"metrics"} ELSE {}]
    /\ chart = [s \in Sessions |-> <<>>]
    /\ styles = [s \in Sessions |-> <<>>]
    /\ fetches = [s \in Sessions |-> 0]
    /\ fetched = [s \in Sessions |-> FALSE]
    /\ lastOk = NoLoad
    /\ cleared = FALSE
    /\ clearedSinceStore = FALSE

NextColor == TableStep(Viewer)

SpecColor == InitColor /\ [][NextColor]_vars

-----------------------------------------------------------------------------
(* Properties *)

\* the run the bounded domains follow: its position, table and page
position == pc[Viewer]
table == df[Viewer]
page == shown[Viewer]
tiles == metrics[Viewer]
colours == styles[Viewer]

Abs(x) == IF x >= 0 THEN x ELSE -x

\* load_data has just returned table to the script
AfterLoad == position = "metrics"

\* the duration_min cell as line 53 leaves it
Coerced(c) == to_numeric(replace_cell(read_csv_cell(c)))

\* the integer a float (in tenths) truncates to: nearest to zero within one
Truncated(t) ==
    CHOOSE k \in -Abs(t)..Abs(t) :
        /\ k * t >= 0
        /\ 10 * Abs(k) <= Abs(t)
        /\ Abs(t) - 10 * Abs(k) < 10

\* the row of table that came from row j of the sheet
OutputOf(j, r) == r.idx = j

\* the cell holds a date / a time of day pd.to_datetime parses
ValidDate(c) == to_date(replace_cell(read_csv_cell(c))) \in 1..30
ValidTime(c) == to_time(replace_cell(read_csv_cell(c))) \in 0..86399

ValidTimes(raw) == ValidDate(raw.date) /\ ValidTime(raw.start) /\ ValidTime(raw.slept)

\* C1: every input row whose duration_min is numeric after coercion resolves to
\* that value truncated to an integer, whatever date, start and slept hold
C1_ExplicitDurationWins ==
    AfterLoad =>
        \A j \in 1..Len(sheet) :
            Coerced(sheet[j].duration_min).kind = "fin" =>
                \E i \in 1..Len(table) :
                    /\ OutputOf(j, table[i])
                    /\ table[i].duration_min =
                           IntOf(Truncated(Coerced(sheet[j].duration_min).tenths))

\* an explicit 12.7 beside a valid date, start and slept (which give 20) resolves to 12
C1_Witness ==
    /\ AfterLoad
    /\ Len(sheet) = 1
    /\ sheet[1].duration_min = Cell("12.7")
    /\ sheet[1].start = Cell("23:50")
    /\ sheet[1].slept = Cell("00:10")
    /\ ValidTimes(sheet[1])
    /\ table[1].duration_min = IntOf(12)

\* whole minutes from s to e (seconds of the day), e on the next day exactly when e < s
Elapsed(s, e) == IF e < s THEN (e + 86400 - s) \div 60 ELSE (e - s) \div 60

\* C2: a row without duration_min and with valid date, start and slept resolves
\* to the whole minutes from start to slept, slept moved to the next day
\* exactly when its time of day is strictly earlier than start's
\* (23:50 to 00:10 gives 20, equal times give 0)
C2_DerivedDuration ==
    AfterLoad =>
        \A j \in 1..Len(sheet) :
            (Coerced(sheet[j].duration_min).kind = "nan" /\ ValidTimes(sheet[j])) =>
                \E i \in 1..Len(table) :
                    /\ OutputOf(j, table[i])
                    /\ ~table[i].duration_min.na
                    /\ table[i].duration_min.v =
                           Elapsed(to_time(sheet[j].start), to_time(sheet[j].slept))
                    /\ (sheet[j].start.text = "23:50" /\ sheet[j].slept.text = "00:10")
                           => table[i].duration_min.v = 20
                    /\ sheet[j].start = sheet[j].slept => table[i].duration_min.v = 0

\* start 23:50:30, slept 23:50 on the same date: rolled over, 1439 whole minutes
C2_Witness ==
    /\ AfterLoad
    /\ Len(sheet) = 1
    /\ sheet[1].start = Cell("23:50:30")
    /\ sheet[1].slept = Cell("23:50")
    /\ sheet[1].duration_min = NA
    /\ sheet[1].date = Cell("2024-11-03")
    /\ table[1].duration_min = IntOf(1439)

\* C3 as stated: every resolved duration is missing or a non-negative integer
C3_NonNegativeAsStated ==
    AfterLoad => \A i \in 1..Len(table) : table[i].duration_min.na \/ table[i].duration_min.v >= 0

\* C3, amended: every resolved duration is missing or an integer, and it is
\* negative only when the row's explicit duration_min cell is -1 or less
C3_NonNegativeUnlessExplicit ==
    AfterLoad =>
        \A i \in 1..Len(table) :
            \/ table[i].duration_min.na
            \/ /\ table[i].duration_min.v \in Int
               /\ table[i].duration_min.v < 0 =>
                      /\ Coerced(sheet[table[i].idx].duration_min).kind = "fin"
                      /\ Coerced(sheet[table[i].idx].duration_min).tenths <= -10

\* an explicit -5.5 resolves to -5
C3_Witness ==
    /\ AfterLoad
    /\ \E i \in 1..Len(table) :
           /\ sheet[table[i].idx].duration_min = Cell("-5.5")
           /\ table[i].duration_min = IntOf(-5)

\* C4: color_minutes gives every integer duration exactly one of the four
\* tiers (below 20; 20 to 45; above 45 to 60; above 60) and a missing
\* duration the empty style
C4_Tiers ==
    position = "button" =>
        /\ Len(colours) = Len(table)
        /\ \A i \in 1..Len(table) :
               LET m == table[i].duration_min
               IN IF m.na THEN colours[i] = ""
                  ELSE /\ colours[i] \in {GREEN, YELLOW, ORANGE, RED}
                       /\ colours[i] = GREEN <=> m.v <= 19
                       /\ colours[i] = YELLOW <=> m.v \in 20..45
                       /\ colours[i] = ORANGE <=> m.v \in 46..60
                       /\ colours[i] = RED <=> m.v >= 61

\* a column holding 45 and a missing duration: second tier and no style
C4_Witness ==
    /\ position = "button"
    /\ Len(table) = 2
    /\ table[1].duration_min = IntOf(45)
    /\ table[2].duration_min = IntNA
    /\ colours = <<YELLOW, "">>

Durations == dropna(table)

OtherMetricsRight ==
    LET have == {i \in 1..Len(table) : ~table[i].duration_min.na}
    IN IF have = {}
       THEN tiles = [avg |-> 0, latest |-> 0, best |-> 0, worst |-> 0]
       ELSE /\ \E i \in have : /\ \A k \in have : k <= i
                               /\ tiles.latest = table[i].duration_min.v
            /\ \E i \in have : tiles.best = table[i].duration_min.v
            /\ \A i \in have : tiles.best <= table[i].duration_min.v
            /\ \E i \in have : tiles.worst = table[i].duration_min.v
            /\ \A i \in have : tiles.worst >= table[i].duration_min.v

\* C5 as stated: the average is the mean rounded to the nearest minute
C5_MeanRoundedAsStated ==
    ("metrics" \in page /\ Len(Durations) > 0) =>
        2 * Abs(Len(Durations) * tiles.avg - sum(Durations)) <= Len(Durations)

\* C5, amended: over the resolved durations that are not missing, the average
\* is the mean truncated towards zero, latest the last one in sorted order,
\* fastest the minimum, slowest the maximum; all four are 0 when there is none
C5_MetricsTruncatedMean ==
    "metrics" \in page =>
        /\ OtherMetricsRight
        /\ Len(Durations) > 0 =>
               LET n == Len(Durations)
                   t == sum(Durations)
               IN /\ tiles.avg * t >= 0
                  /\ n * Abs(tiles.avg) <= Abs(t)
                  /\ Abs(t) < n * (Abs(tiles.avg) + 1)

\* durations 0, 10 and 10, the 0 in the last row: mean 6.67, page as 6
C5_Witness ==
    /\ "metrics" \in page
    /\ Len(table) = 3
    /\ Durations = <<10, 10, 0>>
    /\ tiles = [avg |-> 6, latest |-> 0, best |-> 0, worst |-> 10]

\* the instant a display string of 2024 names, as (day, half of the day, hour,
\* minute)
Instant(s) == <<s.d, IF s.p = "AM" THEN 0 ELSE 1, s.I % 12, s.M>>

Before(a, b) ==
    \/ a[1] < b[1]
    \/ a[1] = b[1] /\ a[2] < b[2]
    \/ a[1] = b[1] /\ a[2] = b[2] /\ a[3] < b[3]
    \/ a[1] = b[1] /\ a[2] = b[2] /\ a[3] = b[3] /\ a[4] < b[4]

\* the converted start of a row as line 90 reads it
StartKey(r) == parse_dc(r.start_dc, lib.dateutil)

\* C6: the returned rows are in ascending order of the instant line 90 reads
\* from start_dc (for two strings of 2024, the instant the strings name), and
\* no row whose start_dc is missing or unreadable comes before a row whose
\* start_dc is read
C6_SortedByStartDc ==
    AfterLoad =>
        \A i, j \in 1..Len(table) :
            i < j =>
                /\ table[i].start_dc.na => StartKey(table[i]) = NaT
                /\ StartKey(table[i]) = NaT => StartKey(table[j]) = NaT
                /\ (StartKey(table[i]) # NaT /\ StartKey(table[j]) # NaT) =>
                       StartKey(table[i]) <= StartKey(table[j])
                /\ (table[i].start_dc.Y = 2024 /\ table[j].start_dc.Y = 2024) =>
                       ~Before(Instant(table[j].start_dc), Instant(table[i].start_dc))

\* three rows returned in another order than the sheet's: the first row of the
\* sheet has no start_dc and is last, the last row of the sheet is first
C6_Witness ==
    /\ AfterLoad
    /\ Len(table) = 3
    /\ table[3].idx = 1
    /\ table[3].start_dc.na
    /\ table[1].idx = 3
    /\ table[1].start_dc.Y = 2024
    /\ table[2].start_dc.Y = 2024
    /\ Before(Instant(table[1].start_dc), Instant(table[2].start_dc))

WithCell(t, j, col, c) == [t EXCEPT ![j][col] = c]

SentinelsAnyCase == Sentinels \cup {"NONE", "nONE", "NAN", "Nan", "nAN"}

\* two returned rows are the same but for the kind of a missing cell
SameRow(a, b) ==
    /\ a.idx = b.idx
    /\ a.duration_min = b.duration_min
    /\ a.start_dc = b.start_dc
    /\ a.slept_dc = b.slept_dc
    /\ \A col \in {"date", "start", "slept", "note"} :
           (a[col].kind = "str" \/ b[col].kind = "str") => a[col] = b[col]

\* what a cell can be when it is absent: a field its row lacks and, for the
\* one row of a sheet, a column the sheet lacks
Absent(t) == IF Len(t) = 1 THEN {NA, None} ELSE {NA}

\* C9: a cell holding "", "none" or "nan" in any letter case, in any of the
\* five columns, gives the rows an absent cell gives
C9_SentinelLikeAbsent ==
    AfterLoad =>
        \A j \in 1..Len(sheet) : \A col \in Columns :
            (sheet[j][col].kind = "str" /\ sheet[j][col].text \in SentinelsAnyCase) =>
                \A a \in Absent(sheet) :
                    LET r == load_data(WithCell(sheet, j, col, a), lib)
                    IN /\ r.ok
                       /\ Len(r.rows) = Len(table)
                       /\ \A i \in 1..Len(table) : SameRow(r.rows[i], table[i])

\* the part of C9 the code keeps: a cell holding exactly "", "none", "None",
\* "nan" or "NaN" gives the rows a field its row lacks gives
ExactSentinelLikeEmptyField ==
    AfterLoad =>
        \A j \in 1..Len(sheet) : \A col \in Columns :
            (sheet[j][col].kind = "str" /\ sheet[j][col].text \in Sentinels) =>
                /\ load_data(WithCell(sheet, j, col, NA), lib).ok
                /\ load_data(WithCell(sheet, j, col, NA), lib).rows = table

\* the part of C9 the code keeps, for a column the sheet lacks: an exact
\* sentinel gives the row the lacking column gives, unless it is the date
\* beside a start and a slept that parse
ExactSentinelLikeLackingColumn ==
    (AfterLoad /\ Len(sheet) = 1) =>
        \A col \in Columns :
            (/\ sheet[1][col].kind = "str"
             /\ sheet[1][col].text \in Sentinels
             /\ ~(/\ col = "date"
                  /\ ValidTime(sheet[1].start)
                  /\ ValidTime(sheet[1].slept))) =>
                /\ load_data(WithCell(sheet, 1, col, None), lib).ok
                /\ SameRow(load_data(WithCell(sheet, 1, col, None), lib).rows[1], table[1])

\* C10: load_data never aborts and returns exactly one row per input row; a
\* row without duration_min whose date, start or slept does not parse has a
\* missing duration, and start_dc and slept_dc are missing together
C10_NeverAbortsNeverDrops ==
    position \notin {"load", "read_csv"} =>
        /\ position # "stopped"
        /\ Len(table) = Len(sheet)
        /\ \A j \in 1..Len(sheet) :
               \E i \in 1..Len(table) :
                   /\ OutputOf(j, table[i])
                   /\ (Coerced(sheet[j].duration_min).kind = "nan" /\ ~ValidTimes(sheet[j]))
                          => table[i].duration_min.na
                   /\ ~ValidTimes(sheet[j]) => (table[i].start_dc.na /\ table[i].slept_dc.na)
                   /\ table[i].start_dc.na <=> table[i].slept_dc.na

\* a call is due a cached answer: a load has been stored less than the window
\* ago and no manual refresh came since
DueCached ==
    /\ lastOk.at >= 0
    /\ ~clearedSinceStore
    /\ now - lastOk.at < REFRESH_EVERY_SECONDS

\* C7: the first load_data call after a manual refresh fetches; any other call
\* made within the window of the last load that was stored, with no manual
\* refresh since, gives the cached rows without a fetch, and a call after the
\* window fetches; a fetch of the sheet the last load read gives the rows the
\* last load gave
C7_CacheWindow ==
    [][\A s \in Sessions :
          /\ (pc[s] = "load" /\ pc'[s] # "load") =>
                 IF ~cleared /\ DueCached
                 THEN /\ ~fetched'[s]
                      /\ fetches'[s] = fetches[s]
                      /\ pc'[s] = "metrics"
                      /\ df'[s] = lastOk.rows
                 ELSE /\ fetched'[s]
                      /\ fetches'[s] = fetches[s] + 1
          /\ (pc[s] = "read_csv" /\ pc'[s] = "metrics" /\ lastOk.at >= 0
                 /\ inflight[s] = lastOk.sheet) => df'[s] = lastOk.rows]_vars

\* what the cache keeps of C7: the same without its first clause, so that a
\* load stored after a manual refresh answers the calls that follow, also
\* when its fetch began before the refresh
CacheWindowSinceStore ==
    [][\A s \in Sessions :
          /\ (pc[s] = "load" /\ pc'[s] # "load") =>
                 IF DueCached
                 THEN /\ ~fetched'[s]
                      /\ fetches'[s] = fetches[s]
                      /\ pc'[s] = "metrics"
                      /\ df'[s] = lastOk.rows
                 ELSE /\ fetched'[s]
                      /\ fetches'[s] = fetches[s] + 1
          /\ (pc[s] = "read_csv" /\ pc'[s] = "metrics" /\ lastOk.at >= 0
                 /\ inflight[s] = lastOk.sheet) => df'[s] = lastOk.rows]_vars

\* a session pressed "Refresh now" and its rerun stands before load_data;
\* a body that began before the clear() has stored its rows since, so the
\* call will be answered from the cache, with rows the sheet no longer gives
StaleAfterRefresh ==
    \E s \in Sessions :
        /\ pc[s] = "load"
        /\ cleared
        /\ cache_hit(cache, now)
        /\ load_data(sheet, lib).ok
        /\ cache.value # load_data(sheet, lib).rows

\* C8: a run whose load fails ends with the error message alone on the page
\* (no metrics, chart or table) after a single fetch, and a fetch is only
\* ever the first of a script run
C8_ErrorHalts ==
    /\ [](\A s \in Sessions :
             pc[s] = "stopped" =>
                 /\ shown[s] = {"error"}
                 /\ fetches[s] = 1
                 /\ df[s] = <<>>
                 /\ metrics[s] = NoMetrics
                 /\ chart[s] = <<>>
                 /\ styles[s] = <<>>)
    /\ [][\A s \in Sessions :
             /\ pc[s] = "stopped" =>
                    (fetches'[s] = fetches[s] \/ (pc'[s] = "load" /\ fetches'[s] = 0))
             /\ fetches'[s] > fetches[s] => (pc[s] = "load" /\ fetches[s] = 0)]_vars

\* a manual refresh came while the other session's fetch was running (that
\* body goes on, its lock dropped by clear()), the rerun fetched beside it
\* and failed: its page shows the error alone
C8_Witness ==
    \E s, t \in Sessions :
        /\ pc[s] = "stopped"
        /\ shown[s] = {"error"}
        /\ fetches[s] = 1
        /\ pc[t] = "read_csv"
        /\ lock = "free"

====
